---- MODULE Spec2Model ----
(***************************************************************************)
(* Verification model of the OCR scoring / caching core of                 *)
(* handwriting_text_recognition_AI_project:                                *)
(*   src/text_recognizer.py   recognize_text and the module-level          *)
(*                            _text_cache dictionary                       *)
(*   src/accuracy_metrics.py  Levenshtein distance, CER, WER, accuracies   *)
(*                                                                         *)
(* Three specifications share the variables below:                         *)
(*   Spec        recognize_text calls executed one at a time               *)
(*   SpecConc    recognize_text calls interleaved by request threads       *)
(*   SpecMetrics the pure metric functions applied to bounded texts        *)
(***************************************************************************)
EXTENDS Integers, Sequences, FiniteSets, TLC

VARIABLES
  text_cache,   \* _text_cache: insertion-ordered dict, a sequence of [key, val]
  insertedAt,   \* history: fingerprint -> number of the store that inserted it last (0 = never)
  stores,       \* history: number of stores performed so far
  seen,         \* history: number of distinct fingerprints stored so far
  last,         \* history: the recognize_text call that completed last
  cache0,       \* history: _text_cache when the request threads started
  pc,           \* per thread: position inside recognize_text
  image_hash,   \* per thread: local image_hash
  result,       \* per thread: local result
  di_used,      \* per thread: dict size recorded by iter(_text_cache)
  oldest_key,   \* per thread: local oldest_key
  ret,          \* per thread: value returned by recognize_text
  error,        \* per thread: exception raised out of recognize_text
  gt,           \* ground_truth argument of the metric functions
  pred,         \* predicted argument of the metric functions
  fn,           \* the metric function applied last
  out,          \* the value it returned
  engine_results, \* the caller's list passed to compare_engines
  input_text,   \* the raw text passed to the correction pipeline
  model,        \* model_loader._model: "None", or where the loaded model is
  processor,    \* model_loader._processor: "None" or "loaded"
  device,       \* model_loader._device: "None" or the selected device
  available,    \* the device get_device() selects on this machine
  model_loads,  \* history: completed from_pretrained calls for the model
  processor_loads, \* history: completed from_pretrained calls for the processor
  failures,     \* history: from_pretrained calls that raised
  lpc,          \* per loader thread: position inside ModelLoader.load
  loaded_here,  \* per loader thread: its call of load() loaded the model
  lret,         \* per loader thread: where the model returned by load() is
  status        \* the last answer of model_status

cacheVars == <<text_cache, insertedAt, stores, seen, last>>
threadVars == <<cache0, pc, image_hash, result, di_used, oldest_key, ret, error>>
pureVars == <<gt, pred, fn, out, engine_results, input_text>>
loaderVars == <<model, processor, device, available, model_loads, processor_loads,
                failures, lpc, loaded_here, lret, status>>
vars == <<cacheVars, threadVars, pureVars, loaderVars>>

----------------------------------------------------------------------------
(* Bounds and program constants *)

\* the capacity tested by "if len(_text_cache) > 100"
CacheCapacity == 100

\* bound: number of successful stores in one behaviour of Spec
MaxStores == 103

\* bound: number of request threads inside recognize_text in SpecConc
NumThreads == 2

\* the recognised (and corrected) texts the model can produce
Texts == <<"MOM", "Hello World", "">>

Fingerprints == 1..MaxStores

Threads == 1..NumThreads

----------------------------------------------------------------------------
(* The dict operations recognize_text performs on _text_cache.  A Python   *)
(* dict iterates in insertion order; assigning to a key that is present    *)
(* keeps its position, assigning to a new key appends it.                  *)

Keys(c) == {c[i].key : i \in DOMAIN c}

\* image_hash in _text_cache
Contains(c, k) == \E i \in DOMAIN c : c[i].key = k

\* _text_cache[image_hash]
Lookup(c, k) == LET i == CHOOSE i \in DOMAIN c : c[i].key = k IN c[i].val

\* _text_cache[image_hash] = result
DictSet(c, k, v) ==
  IF Contains(c, k)
  THEN [i \in DOMAIN c |-> IF c[i].key = k THEN [key |-> k, val |-> v] ELSE c[i]]
  ELSE Append(c, [key |-> k, val |-> v])

\* the key inserted last instead of first
OldestKeyNewest(c) == c[Len(c)].key

\* next(iter(_text_cache))
OldestKey(c) == c[1].key

\* del _text_cache[oldest_key]
DictDel(c, k) == SelectSeq(c, LAMBDA e : e.key # k)

\* capacity test off by one: evicts only beyond 101 entries
EvictIfOverLate(c) ==
  IF Len(c) > CacheCapacity + 1 THEN DictDel(c, OldestKey(c)) ELSE c

\* if len(_text_cache) > 100: delete the first key in iteration order
EvictIfOver(c) ==
  IF Len(c) > CacheCapacity THEN DictDel(c, OldestKey(c)) ELSE c

\* processor(...), model.generate, batch_decode, strip, smart_correct:
\* the text obtained for an image is a function of its pixels
RecognizedText(k) == Texts[(k % Len(Texts)) + 1]

----------------------------------------------------------------------------
(* Spec: recognize_text calls, each run to completion *)

NoCall == [kind |-> "none", key |-> 0, ret |-> "", stage |-> ""]

\* fingerprints a request can carry: every one stored before and one new one
InputFingerprints == {k \in Fingerprints : k <= seen + 1}

\* no request thread is inside recognize_text
ThreadsIdle ==
  /\ pc = [t \in Threads |-> "idle"]
  /\ image_hash = [t \in Threads |-> 0]
  /\ result = [t \in Threads |-> ""]
  /\ di_used = [t \in Threads |-> 0]
  /\ oldest_key = [t \in Threads |-> 0]
  /\ ret = [t \in Threads |-> ""]
  /\ error = [t \in Threads |-> ""]

\* no metric function has been applied
PureIdle ==
  /\ gt = <<>>
  /\ pred = <<>>
  /\ fn = "none"
  /\ out = 0
  /\ engine_results = <<>>
  /\ input_text = <<>>

\* bound: request threads that call model_loader.load()
MaxRequests == 2

\* bound: from_pretrained calls that raise
MaxFailures == 1

\* thread 0 is the preload thread of web_app.py, the others serve requests
LoadThreads == 0..MaxRequests

\* model_loader = ModelLoader(): nothing loaded, no thread inside load()
LoaderFresh ==
  /\ model = "None"
  /\ processor = "None"
  /\ device = "None"
  /\ model_loads = 0
  /\ processor_loads = 0
  /\ failures = 0
  /\ lpc = [t \in LoadThreads |-> "idle"]
  /\ loaded_here = [t \in LoadThreads |-> FALSE]
  /\ lret = [t \in LoadThreads |-> "None"]
  /\ status = [ready |-> FALSE, model_at |-> "None"]

LoaderIdle ==
  /\ LoaderFresh
  /\ available = "cpu"

\* _text_cache = {} at import
CacheEmpty ==
  /\ text_cache = <<>>
  /\ insertedAt = [k \in Fingerprints |-> 0]
  /\ stores = 0
  /\ seen = 0
  /\ last = NoCall
  /\ cache0 = <<>>

Init ==
  /\ CacheEmpty
  /\ ThreadsIdle
  /\ LoaderIdle
  /\ PureIdle

\* a hit that refreshes the entry's position (least-recently-used order)
RecognizeHitRefresh(k) ==
  /\ Contains(text_cache, k)
  /\ last' = [kind |-> "hit", key |-> k, ret |-> Lookup(text_cache, k), stage |-> ""]
  /\ text_cache' = Append(DictDel(text_cache, k),
                          [key |-> k, val |-> Lookup(text_cache, k)])
  /\ UNCHANGED <<insertedAt, stores, seen, threadVars, pureVars, loaderVars>>

\* lines 101-103: the fingerprint is cached
RecognizeHit(k) ==
  /\ Contains(text_cache, k)
  /\ last' = [kind |-> "hit", key |-> k, ret |-> Lookup(text_cache, k), stage |-> ""]
  /\ UNCHANGED <<text_cache, insertedAt, stores, seen, threadVars, pureVars, loaderVars>>

\* lines 101-129: the fingerprint is not cached and recognition succeeds
RecognizeStore(k) ==
  /\ ~Contains(text_cache, k)
  /\ stores < MaxStores
  /\ LET text == RecognizedText(k) IN
       /\ text_cache' = EvictIfOver(DictSet(text_cache, k, text))
       /\ last' = [kind |-> "stored", key |-> k, ret |-> text, stage |-> ""]
  /\ insertedAt' = [insertedAt EXCEPT ![k] = stores + 1]
  /\ stores' = stores + 1
  /\ seen' = IF insertedAt[k] = 0 THEN seen + 1 ELSE seen
  /\ UNCHANGED <<threadVars, pureVars, loaderVars>>

\* lines 97-99: validate_image_input or load_image raises before a
\* fingerprint exists
RecognizeRaiseEarly(stage) ==
  /\ stage \in {"validate", "load_image"}
  /\ last' = [kind |-> "raised", key |-> 0, ret |-> "", stage |-> stage]
  /\ UNCHANGED <<text_cache, insertedAt, stores, seen, threadVars, pureVars, loaderVars>>

\* the entry is reserved in the cache before the step that raises
RecognizeRaiseMissDirty(k, stage) ==
  /\ ~Contains(text_cache, k)
  /\ stage \in {"model_load", "inference"}
  /\ last' = [kind |-> "raised", key |-> k, ret |-> "", stage |-> stage]
  /\ text_cache' = EvictIfOver(DictSet(text_cache, k, ""))
  /\ UNCHANGED <<insertedAt, stores, seen, threadVars, pureVars, loaderVars>>

\* lines 105-131: the fingerprint is not cached and model loading or
\* inference raises
RecognizeRaiseMiss(k, stage) ==
  /\ ~Contains(text_cache, k)
  /\ stage \in {"model_load", "inference"}
  /\ last' = [kind |-> "raised", key |-> k, ret |-> "", stage |-> stage]
  /\ UNCHANGED <<text_cache, insertedAt, stores, seen, threadVars, pureVars, loaderVars>>

Next ==
  \/ \E k \in InputFingerprints : RecognizeHit(k)
  \/ \E k \in InputFingerprints : RecognizeStore(k)
  \/ \E stage \in {"validate", "load_image"} : RecognizeRaiseEarly(stage)
  \/ \E k \in InputFingerprints, stage \in {"model_load", "inference"} :
       RecognizeRaiseMiss(k, stage)

Spec == Init /\ [][Next]_vars

----------------------------------------------------------------------------
(* SpecConc: recognize_text executed by the request threads of the web     *)
(* application (web_app.py runs the Flask server, which serves each        *)
(* request on its own thread; recognize_text takes no lock).  A thread     *)
(* switch can happen between any two of the dict operations below.  Each   *)
(* thread performs one call whose image loads and whose inference          *)
(* succeeds.  The threads start on a cache that earlier one-at-a-time      *)
(* calls with fingerprints 1, 2, ... have filled.                          *)

PrefillSizes == {CacheCapacity - 1, CacheCapacity}

Prefill(n) == [i \in 1..n |-> [key |-> i, val |-> RecognizedText(i)]]

\* the image thread t submits: the oldest cached one, a new one that
\* thread 1 may submit too, or a new one of its own
ThreadFingerprints(t) == {OldestKey(cache0), Len(cache0) + 1, Len(cache0) + t}

ConcInit ==
  /\ \E n \in PrefillSizes :
       /\ text_cache = Prefill(n)
       /\ insertedAt = [k \in Fingerprints |-> IF k <= n THEN k ELSE 0]
       /\ stores = n
       /\ seen = n
  /\ cache0 = text_cache
  /\ last = NoCall
  /\ ThreadsIdle
  /\ LoaderIdle
  /\ PureIdle

\* lines 97-101: validate, load the image, compute its fingerprint
Begin(t, k) ==
  /\ pc[t] = "idle"
  /\ image_hash' = [image_hash EXCEPT ![t] = k]
  /\ pc' = [pc EXCEPT ![t] = "check"]
  /\ UNCHANGED <<pureVars, loaderVars, cacheVars, cache0, result, di_used, oldest_key, ret, error>>

\* line 102: if image_hash in _text_cache
CheckCache(t) ==
  /\ pc[t] = "check"
  /\ pc' = [pc EXCEPT ![t] =
              IF Contains(text_cache, image_hash[t]) THEN "read" ELSE "infer"]
  /\ UNCHANGED <<pureVars, loaderVars, cacheVars, cache0, image_hash, result, di_used, oldest_key, ret, error>>

\* line 103: return _text_cache[image_hash]; a missing key raises KeyError,
\* which no handler in recognize_text catches
ReadCache(t) ==
  /\ pc[t] = "read"
  /\ IF Contains(text_cache, image_hash[t])
     THEN /\ ret' = [ret EXCEPT ![t] = Lookup(text_cache, image_hash[t])]
          /\ pc' = [pc EXCEPT ![t] = "returned"]
          /\ UNCHANGED error
     ELSE /\ error' = [error EXCEPT ![t] = "KeyError"]
          /\ pc' = [pc EXCEPT ![t] = "raised"]
          /\ UNCHANGED ret
  /\ UNCHANGED <<pureVars, loaderVars, cacheVars, cache0, image_hash, result, di_used, oldest_key>>

\* lines 105-122: load the model, run inference, correct the text
Infer(t) ==
  /\ pc[t] = "infer"
  /\ result' = [result EXCEPT ![t] = RecognizedText(image_hash[t])]
  /\ pc' = [pc EXCEPT ![t] = "store"]
  /\ UNCHANGED <<pureVars, loaderVars, cacheVars, cache0, image_hash, di_used, oldest_key, ret, error>>

\* line 123: _text_cache[image_hash] = result
StoreResult(t) ==
  /\ pc[t] = "store"
  /\ text_cache' = DictSet(text_cache, image_hash[t], result[t])
  /\ pc' = [pc EXCEPT ![t] = "len"]
  /\ UNCHANGED <<pureVars, loaderVars, insertedAt, stores, seen, last, cache0, image_hash, result,
                 di_used, oldest_key, ret, error>>

\* lines 125 and 129: if len(_text_cache) > 100, else return result
CheckLen(t) ==
  /\ pc[t] = "len"
  /\ IF Len(text_cache) > CacheCapacity
     THEN /\ pc' = [pc EXCEPT ![t] = "iter"]
          /\ UNCHANGED ret
     ELSE /\ pc' = [pc EXCEPT ![t] = "returned"]
          /\ ret' = [ret EXCEPT ![t] = result[t]]
  /\ UNCHANGED <<pureVars, loaderVars, cacheVars, cache0, image_hash, result, di_used, oldest_key, error>>

\* line 126: iter(_text_cache); the iterator records the size of the dict
MakeIter(t) ==
  /\ pc[t] = "iter"
  /\ di_used' = [di_used EXCEPT ![t] = Len(text_cache)]
  /\ pc' = [pc EXCEPT ![t] = "next"]
  /\ UNCHANGED <<pureVars, loaderVars, cacheVars, cache0, image_hash, result, oldest_key, ret, error>>

\* line 126: next(...); a dict whose size changed since iter() raises
\* RuntimeError, which lines 130-131 turn into "Text recognition failed"
NextKey(t) ==
  /\ pc[t] = "next"
  /\ IF Len(text_cache) = di_used[t]
     THEN /\ oldest_key' = [oldest_key EXCEPT ![t] = OldestKey(text_cache)]
          /\ pc' = [pc EXCEPT ![t] = "del"]
          /\ UNCHANGED error
     ELSE /\ error' = [error EXCEPT ![t] = "Text recognition failed: RuntimeError"]
          /\ pc' = [pc EXCEPT ![t] = "raised"]
          /\ UNCHANGED oldest_key
  /\ UNCHANGED <<pureVars, loaderVars, cacheVars, cache0, image_hash, result, di_used, ret>>

\* lines 127-131: del _text_cache[oldest_key], then return result; a
\* missing key raises KeyError, turned into "Text recognition failed"
DelOldest(t) ==
  /\ pc[t] = "del"
  /\ IF Contains(text_cache, oldest_key[t])
     THEN /\ text_cache' = DictDel(text_cache, oldest_key[t])
          /\ ret' = [ret EXCEPT ![t] = result[t]]
          /\ pc' = [pc EXCEPT ![t] = "returned"]
          /\ UNCHANGED error
     ELSE /\ error' = [error EXCEPT ![t] = "Text recognition failed: KeyError"]
          /\ pc' = [pc EXCEPT ![t] = "raised"]
          /\ UNCHANGED <<text_cache, ret>>
  /\ UNCHANGED <<pureVars, loaderVars, insertedAt, stores, seen, last, cache0, image_hash, result,
                 di_used, oldest_key>>

ConcNext ==
  \/ \E t \in Threads : \E k \in ThreadFingerprints(t) : Begin(t, k)
  \/ \E t \in Threads : CheckCache(t)
  \/ \E t \in Threads : ReadCache(t)
  \/ \E t \in Threads : Infer(t)
  \/ \E t \in Threads : StoreResult(t)
  \/ \E t \in Threads : CheckLen(t)
  \/ \E t \in Threads : MakeIter(t)
  \/ \E t \in Threads : NextKey(t)
  \/ \E t \in Threads : DelOldest(t)

SpecConc == ConcInit /\ [][ConcNext]_vars

----------------------------------------------------------------------------
(* accuracy_metrics.py.  A text is a sequence of one-character strings.    *)
(* A Python float result is kept as the exact fraction num/den; a          *)
(* fraction with den = 0 stands for a raised ZeroDivisionError.            *)

\* bound: longest ground-truth text
MaxRefLen == 3

\* bound: longest predicted text
MaxCandLen == 4

Alphabet == {"a", "A", " "}

Whitespace == {" "}

TextsUpTo(n) == UNION {[1..m -> Alphabet] : m \in 0..n}

Rat(n, d) == [num |-> n, den |-> d]

ZeroDivisionError == Rat(0, 0)

\* x / y on numbers
TrueDiv(n, d) == IF d = 0 THEN ZeroDivisionError ELSE Rat(n, d)

\* min(x, 1.0)
MinOne(r) ==
  IF r.den = 0 THEN r ELSE IF r.num > r.den THEN Rat(1, 1) ELSE r

Min3(x, y, z) ==
  IF x <= y /\ x <= z THEN x ELSE IF y <= z THEN y ELSE z

\* the inner loop with a substitution that always costs 1
RECURSIVE levenshtein_row_always_subst(_, _, _, _, _)
levenshtein_row_always_subst(c1, s2, previous_row, current_row, j) ==
  IF j > Len(s2) THEN current_row
  ELSE LET insertions == previous_row[j + 1] + 1
           deletions == current_row[j] + 1
           substitutions == previous_row[j] + 1
       IN levenshtein_row_always_subst(c1, s2, previous_row,
            Append(current_row, Min3(insertions, deletions, substitutions)), j + 1)

\* lines 16-20: the inner loop over s2; j is the 1-based position in s2,
\* rows are 1-based, so Python's previous_row[j + 1] with 0-based j is
\* previous_row[j + 1] here and Python's previous_row[j] is previous_row[j]
RECURSIVE levenshtein_row(_, _, _, _, _)
levenshtein_row(c1, s2, previous_row, current_row, j) ==
  IF j > Len(s2) THEN current_row
  ELSE LET insertions == previous_row[j + 1] + 1
           deletions == current_row[j] + 1
           substitutions == previous_row[j] + (IF c1 # s2[j] THEN 1 ELSE 0)
       IN levenshtein_row(c1, s2, previous_row,
            Append(current_row, Min3(insertions, deletions, substitutions)), j + 1)

\* lines 14-21: the outer loop over s1; current_row starts as [i + 1] for
\* the 0-based i, which is <<i>> for the 1-based i
RECURSIVE levenshtein_rows(_, _, _, _)
levenshtein_rows(s1, s2, previous_row, i) ==
  IF i > Len(s1) THEN previous_row
  ELSE levenshtein_rows(s1, s2,
         levenshtein_row(s1[i], s2, previous_row, <<i>>, 1), i + 1)

\* lines 5-23
calculate_levenshtein_distance(s1, s2) ==
  LET a == IF Len(s1) < Len(s2) THEN s2 ELSE s1
      b == IF Len(s1) < Len(s2) THEN s1 ELSE s2
  IN IF Len(b) = 0 THEN Len(a)
     ELSE LET final_row == levenshtein_rows(a, b, [j \in 1..(Len(b) + 1) |-> j - 1], 1)
          IN final_row[Len(final_row)]

\* str.lower on one character
Lower(c) == IF c = "A" THEN "a" ELSE c

\* re.sub(r'\s+', ' ', text): every maximal whitespace run becomes one space
RECURSIVE collapse_whitespace(_, _, _)
collapse_whitespace(text, i, acc) ==
  IF i > Len(text) THEN acc
  ELSE IF text[i] \in Whitespace
       THEN IF i > 1 /\ text[i - 1] \in Whitespace
            THEN collapse_whitespace(text, i + 1, acc)
            ELSE collapse_whitespace(text, i + 1, Append(acc, " "))
       ELSE collapse_whitespace(text, i + 1, Append(acc, text[i]))

\* str.strip
RECURSIVE strip(_)
strip(text) ==
  IF text = <<>> THEN text
  ELSE IF text[1] \in Whitespace THEN strip(Tail(text))
  ELSE IF text[Len(text)] \in Whitespace THEN strip(SubSeq(text, 1, Len(text) - 1))
  ELSE text

\* normalisation that forgets to fold the case
normalize_text_keep_case(text) == strip(collapse_whitespace(text, 1, <<>>))

\* lines 26-31
normalize_text(text) ==
  strip(collapse_whitespace([i \in DOMAIN text |-> Lower(text[i])], 1, <<>>))

\* str.split(): the maximal runs of non-whitespace characters
RECURSIVE split_from(_, _, _, _)
split_from(text, i, word, words) ==
  IF i > Len(text)
  THEN IF word = <<>> THEN words ELSE Append(words, word)
  ELSE IF text[i] \in Whitespace
       THEN split_from(text, i + 1, <<>>,
                       IF word = <<>> THEN words ELSE Append(words, word))
       ELSE split_from(text, i + 1, Append(word, text[i]), words)

split(text) == split_from(text, 1, <<>>, <<>>)

\* character error rate that forgets min(cer, 1.0)
calculate_cer_unclamped(ground_truth, predicted) ==
  IF ground_truth = <<>>
  THEN IF predicted = <<>> THEN Rat(0, 1) ELSE Rat(1, 1)
  ELSE TrueDiv(calculate_levenshtein_distance(ground_truth, predicted),
               Len(ground_truth))

\* lines 34-45
calculate_cer(ground_truth, predicted) ==
  IF ground_truth = <<>>
  THEN IF predicted = <<>> THEN Rat(0, 1) ELSE Rat(1, 1)
  ELSE MinOne(TrueDiv(calculate_levenshtein_distance(ground_truth, predicted),
                      Len(ground_truth)))

\* lines 63-78: dp[i][j] of the word-level table
RECURSIVE wer_dp(_, _, _, _)
wer_dp(gt_words, pred_words, i, j) ==
  IF i = 0 THEN j
  ELSE IF j = 0 THEN i
  ELSE IF gt_words[i] = pred_words[j]
       THEN wer_dp(gt_words, pred_words, i - 1, j - 1)
       ELSE 1 + Min3(wer_dp(gt_words, pred_words, i - 1, j),
                     wer_dp(gt_words, pred_words, i, j - 1),
                     wer_dp(gt_words, pred_words, i - 1, j - 1))

\* lines 48-80; the character distance of line 60 is computed and not used
calculate_wer(ground_truth, predicted) ==
  LET gt_words == split(normalize_text(ground_truth))
      pred_words == split(normalize_text(predicted))
  IN IF gt_words = <<>>
     THEN IF pred_words = <<>> THEN Rat(0, 1) ELSE Rat(1, 1)
     ELSE MinOne(TrueDiv(wer_dp(gt_words, pred_words, Len(gt_words), Len(pred_words)),
                         Len(gt_words)))

\* accuracy from the raw distance ratio, without the clamps
calculate_accuracy_unclamped(ground_truth, predicted) ==
  IF ground_truth = <<>>
  THEN IF predicted = <<>> THEN Rat(100, 1) ELSE Rat(0, 1)
  ELSE LET cer == calculate_cer_unclamped(ground_truth, predicted)
       IN Rat(100 * (cer.den - cer.num), cer.den)

\* lines 83-93: max(0.0, (1.0 - cer) * 100)
calculate_accuracy(ground_truth, predicted) ==
  IF ground_truth = <<>>
  THEN IF predicted = <<>> THEN Rat(100, 1) ELSE Rat(0, 1)
  ELSE LET cer == calculate_cer(ground_truth, predicted)
           accuracy == Rat(100 * (cer.den - cer.num), cer.den)
       IN IF accuracy.num < 0 THEN Rat(0, 1) ELSE accuracy

\* lines 96-109: zip stops at the shorter word list
calculate_word_accuracy(ground_truth, predicted) ==
  LET gt_words == split(normalize_text(ground_truth))
      pred_words == split(normalize_text(predicted))
      zipped == IF Len(gt_words) < Len(pred_words)
                THEN DOMAIN gt_words ELSE DOMAIN pred_words
      correct_words == Cardinality({i \in zipped : gt_words[i] = pred_words[i]})
  IN IF gt_words = <<>>
     THEN IF pred_words = <<>> THEN Rat(100, 1) ELSE Rat(0, 1)
     ELSE Rat(100 * correct_words, Len(gt_words))

\* round(x, 2), as the number of hundredths: nearest, ties to even
Round2(r) ==
  LET n == 100 * r.num
      q == n \div r.den
      rem == n % r.den
  IN IF 2 * rem < r.den THEN q
     ELSE IF 2 * rem > r.den THEN q + 1
     ELSE IF q % 2 = 0 THEN q ELSE q + 1

\* lines 112-139; the four percentages are in hundredths (8182 is 81.82)
get_detailed_metrics(ground_truth, predicted) ==
  LET cer == calculate_cer(ground_truth, predicted)
      wer == calculate_wer(ground_truth, predicted)
      accuracy == calculate_accuracy(ground_truth, predicted)
      word_accuracy == calculate_word_accuracy(ground_truth, predicted)
      levenshtein == calculate_levenshtein_distance(ground_truth, predicted)
  IN [character_error_rate |-> Round2(Rat(100 * cer.num, cer.den)),
      word_error_rate |-> Round2(Rat(100 * wer.num, wer.den)),
      character_accuracy |-> Round2(accuracy),
      word_accuracy |-> Round2(word_accuracy),
      levenshtein_distance |-> levenshtein,
      ground_truth_length |-> Len(ground_truth),
      predicted_length |-> Len(predicted),
      ground_truth_word_count |-> Len(split(ground_truth)),
      predicted_word_count |-> Len(split(predicted))]

(* SpecMetrics: the metric functions applied to every pair of texts within *)
(* the bounds.                                                             *)

MetricsInit ==
  /\ CacheEmpty
  /\ ThreadsIdle
  /\ LoaderIdle
  /\ gt \in TextsUpTo(MaxRefLen)
  /\ pred \in TextsUpTo(MaxCandLen)
  /\ fn = "none"
  /\ out = 0
  /\ engine_results = <<>>
  /\ input_text = <<>>

Apply(name, value) ==
  /\ fn' = name
  /\ out' = value
  /\ UNCHANGED <<gt, pred, engine_results, input_text, cacheVars, threadVars, loaderVars>>

ApplyLevenshtein ==
  Apply("calculate_levenshtein_distance", calculate_levenshtein_distance(gt, pred))

ApplyCer == Apply("calculate_cer", calculate_cer(gt, pred))

ApplyWer == Apply("calculate_wer", calculate_wer(gt, pred))

ApplyAccuracy == Apply("calculate_accuracy", calculate_accuracy(gt, pred))

ApplyWordAccuracy ==
  Apply("calculate_word_accuracy", calculate_word_accuracy(gt, pred))

ApplyDetailedMetrics ==
  Apply("get_detailed_metrics", get_detailed_metrics(gt, pred))

MetricsNext ==
  \/ ApplyLevenshtein
  \/ ApplyCer
  \/ ApplyWer
  \/ ApplyAccuracy
  \/ ApplyWordAccuracy
  \/ ApplyDetailedMetrics

SpecMetrics == MetricsInit /\ [][MetricsNext]_vars

----------------------------------------------------------------------------
(* compare_engines.  An engine result is a record; its 'success' key is    *)
(* "True", "False" or "missing", and its optional 'accuracy_metrics' key   *)
(* is a sequence that is empty when the key is absent.  The 'engine' field *)
(* of the i-th input result is i.                                          *)

\* bound: number of engine results passed to compare_engines
MaxEngines == 3

\* bound: longest text in a ranking
MaxRankLen == 2

RankAlphabet == {"a", "b"}

RankTexts == UNION {[1..m -> RankAlphabet] : m \in 0..MaxRankLen}

\* the results multi_ocr produces (success with a text, failure with an
\* empty text) and a result without a 'success' key
ResultShapes ==
  {[success |-> "True", text |-> t, accuracy_metrics |-> <<>>] : t \in RankTexts}
  \cup {[success |-> "False", text |-> <<>>, accuracy_metrics |-> <<>>]}
  \cup {[success |-> "missing", text |-> <<"a">>, accuracy_metrics |-> <<>>]}

EngineResultLists ==
  UNION {{[i \in 1..n |-> [engine |-> i,
                            success |-> f[i].success,
                            text |-> f[i].text,
                            accuracy_metrics |-> f[i].accuracy_metrics]] :
            f \in [1..n -> ResultShapes]} : n \in 0..MaxEngines}

\* line 157: result.get('success', True) and 'text' in result
is_scored(res) == res.success # "False"

\* lines 158-160: the copy of a result with its metrics attached
with_metrics(ground_truth, res) ==
  [res EXCEPT !.accuracy_metrics = <<get_detailed_metrics(ground_truth, res.text)>>]

\* lines 156-163
attach_metrics(ground_truth, results) ==
  [i \in DOMAIN results |->
     IF is_scored(results[i]) THEN with_metrics(ground_truth, results[i])
     ELSE results[i]]

\* line 166: x.get('accuracy_metrics', {}).get('character_accuracy', 0)
sort_key(res) ==
  IF res.accuracy_metrics = <<>> THEN 0
  ELSE res.accuracy_metrics[1].character_accuracy

\* position of x in a list sorted in descending key order, after every
\* element whose key is at least the key of x
RECURSIVE insert_descending(_, _)
insert_descending(sorted, x) ==
  IF sorted = <<>> THEN <<x>>
  ELSE IF sort_key(sorted[1]) >= sort_key(x)
       THEN <<sorted[1]>> \o insert_descending(Tail(sorted), x)
       ELSE <<x>> \o sorted

RECURSIVE insert_ascending(_, _)
insert_ascending(sorted, x) ==
  IF sorted = <<>> THEN <<x>>
  ELSE IF sort_key(sorted[1]) <= sort_key(x)
       THEN <<sorted[1]>> \o insert_ascending(Tail(sorted), x)
       ELSE <<x>> \o sorted

RECURSIVE sort_ascending(_, _, _)
sort_ascending(results, i, sorted) ==
  IF i > Len(results) THEN sorted
  ELSE sort_ascending(results, i + 1, insert_ascending(sorted, results[i]))

RECURSIVE sort_descending(_, _, _)
sort_descending(results, i, sorted) ==
  IF i > Len(results) THEN sorted
  ELSE sort_descending(results, i + 1, insert_descending(sorted, results[i]))

\* an ascending sort that is reversed afterwards, which reverses the ties
sort_reversed(results) ==
  LET asc == sort_ascending(results, 1, <<>>)
  IN [j \in DOMAIN asc |-> asc[Len(asc) + 1 - j]]

\* lines 165-168: list.sort(key=..., reverse=True) is stable
sort(results) == sort_descending(results, 1, <<>>)

\* metrics are attached to the caller's records instead of to copies
compare_engines_in_place(ground_truth, results) ==
  [returned |-> sort(attach_metrics(ground_truth, results)),
   engine_results |-> attach_metrics(ground_truth, results)]

\* lines 142-170: the returned list and the caller's list after the call
compare_engines(ground_truth, results) ==
  [returned |-> sort(attach_metrics(ground_truth, results)),
   engine_results |-> results]

(* SpecRank: compare_engines applied to every reference and every list of  *)
(* engine results within the bounds.                                       *)

RankInit ==
  /\ CacheEmpty
  /\ ThreadsIdle
  /\ LoaderIdle
  /\ gt \in RankTexts
  /\ engine_results \in EngineResultLists
  /\ pred = <<>>
  /\ input_text = <<>>
  /\ fn = "none"
  /\ out = 0

CompareEngines ==
  /\ fn = "none"
  /\ LET call == compare_engines(gt, engine_results) IN
       /\ out' = call.returned
       /\ engine_results' = call.engine_results
  /\ fn' = "compare_engines"
  /\ UNCHANGED <<gt, pred, input_text, cacheVars, threadVars, loaderVars>>

RankNext == CompareEngines

SpecRank == RankInit /\ [][RankNext]_vars

----------------------------------------------------------------------------
(* smart_correction.py.  A text is a sequence of one-character strings.    *)

UpperCase ==
  {"A", "B", "C", "D", "E", "F", "G", "H", "I", "J", "K", "L", "M",
   "N", "O", "P", "Q", "R", "S", "T", "U", "V", "W", "X", "Y", "Z"}

LowerCase ==
  {"a", "b", "c", "d", "e", "f", "g", "h", "i", "j", "k", "l", "m",
   "n", "o", "p", "q", "r", "s", "t", "u", "v", "w", "x", "y", "z"}

Digits == {"0", "1", "2", "3", "4", "5", "6", "7", "8", "9"}

\* the characters matched by \w
WordChars == UpperCase \cup LowerCase \cup Digits \cup {"_"}

UpperOf ==
  [c \in LowerCase |->
     CASE c = "a" -> "A" [] c = "b" -> "B" [] c = "c" -> "C" [] c = "d" -> "D"
       [] c = "e" -> "E" [] c = "f" -> "F" [] c = "g" -> "G" [] c = "h" -> "H"
       [] c = "i" -> "I" [] c = "j" -> "J" [] c = "k" -> "K" [] c = "l" -> "L"
       [] c = "m" -> "M" [] c = "n" -> "N" [] c = "o" -> "O" [] c = "p" -> "P"
       [] c = "q" -> "Q" [] c = "r" -> "R" [] c = "s" -> "S" [] c = "t" -> "T"
       [] c = "u" -> "U" [] c = "v" -> "V" [] c = "w" -> "W" [] c = "x" -> "X"
       [] c = "y" -> "Y" [] c = "z" -> "Z"]

\* str.upper()
upper(word) ==
  [i \in DOMAIN word |-> IF word[i] \in LowerCase THEN UpperOf[word[i]] ELSE word[i]]

is_word_at(t, i) == i \in DOMAIN t /\ t[i] \in WordChars

\* \b between positions i - 1 and i
boundary(t, i) == is_word_at(t, i - 1) # is_word_at(t, i)

\* (?<=[A-Z]) before position i, (?=[A-Z]) at position i
upper_at(t, i) == i \in DOMAIN t /\ t[i] \in UpperCase

\* A pattern with a literal body: what must hold in front of the literal
\* ("boundary" for \b, "upper" for (?<=[A-Z]), "none"), the literal, what
\* must hold behind it ("boundary", "upper" for (?=[A-Z]), "none").
Pattern(before, lit, after) == [before |-> before, lit |-> lit, after |-> after]

PATTERN_RM_UPPER == Pattern("none", <<"r", "m">>, "upper")
PATTERN_RM_AFTER == Pattern("upper", <<"r", "m">>, "none")
PATTERN_RM_STANDALONE == Pattern("boundary", <<"r", "m">>, "boundary")
PATTERN_RN_STANDALONE == Pattern("boundary", <<"R", "n">>, "boundary")
PATTERN_RN_BETWEEN == Pattern("upper", <<"r", "n">>, "upper")
PATTERN_RN_END == Pattern("upper", <<"r", "n">>, "boundary")
PATTERN_NN_BETWEEN == Pattern("upper", <<"n", "n">>, "upper")
PATTERN_NN_STANDALONE == Pattern("boundary", <<"n", "n">>, "boundary")

CHAR_REPLACEMENTS ==
  << <<Pattern("boundary", <<"0">>, "upper"), <<"O">> >>,
     <<Pattern("upper", <<"0">>, "upper"), <<"O">> >>,
     <<Pattern("upper", <<"0">>, "boundary"), <<"O">> >>,
     <<Pattern("boundary", <<"1">>, "upper"), <<"I">> >>,
     <<Pattern("upper", <<"1">>, "upper"), <<"I">> >>,
     <<Pattern("boundary", <<"5">>, "upper"), <<"S">> >>,
     <<Pattern("upper", <<"5">>, "boundary"), <<"S">> >>,
     <<Pattern("boundary", <<"8">>, "upper"), <<"B">> >>,
     <<Pattern("upper", <<"8">>, "boundary"), <<"B">> >>,
     <<Pattern("boundary", <<"l">>, "upper"), <<"I">> >>,
     <<Pattern("upper", <<"l">>, "boundary"), <<"I">> >>,
     <<Pattern("boundary", <<"v", "v">>, "none"), <<"W">> >>,
     <<Pattern("upper", <<"v", "v">>, "none"), <<"W">> >>,
     <<Pattern("upper", <<"v">>, "boundary"), <<"Y">> >> >>

\* the pattern matches the text at position i
matches_at(p, t, i) ==
  LET e == i + Len(p.lit) IN
    /\ e - 1 <= Len(t)
    /\ SubSeq(t, i, e - 1) = p.lit
    /\ CASE p.before = "boundary" -> boundary(t, i)
         [] p.before = "upper" -> upper_at(t, i - 1)
         [] OTHER -> TRUE
    /\ CASE p.after = "boundary" -> boundary(t, e)
         [] p.after = "upper" -> upper_at(t, e)
         [] OTHER -> TRUE

\* pattern.sub(repl, t): the non-overlapping matches from left to right
RECURSIVE sub_from(_, _, _, _)
sub_from(p, repl, t, i) ==
  IF i > Len(t) THEN <<>>
  ELSE IF matches_at(p, t, i)
       THEN repl \o sub_from(p, repl, t, i + Len(p.lit))
       ELSE <<t[i]>> \o sub_from(p, repl, t, i + 1)

sub(p, repl, t) == sub_from(p, repl, t, 1)

\* PATTERN_SHORT_WORDS: [A-Z]{1,3} and [a-z]{1,3}
ShortPrefixMax == 3
ShortSuffixMax == 3

\* line 56: words of 2 to 5 characters are upper-cased
ShortWordMin == 2
ShortWordMax == 5

\* PATTERN_RM, \b([A-Z])rm([a-zA-Z]+)\b: the positions where a match that
\* starts at position i can end
rm_word_ends(t, i) ==
  {e \in (i + 3)..Len(t) :
     /\ boundary(t, i)
     /\ upper_at(t, i)
     /\ t[i + 1] = "r"
     /\ t[i + 2] = "m"
     /\ \A k \in (i + 3)..e : t[k] \in UpperCase \cup LowerCase
     /\ boundary(t, e + 1)}

Max(S) == CHOOSE x \in S : \A y \in S : y <= x

\* line 36: list(PATTERN_RM.finditer(corrected))
RECURSIVE finditer_rm(_, _)
finditer_rm(t, i) ==
  IF i > Len(t) THEN <<>>
  ELSE IF rm_word_ends(t, i) # {}
       THEN LET e == Max(rm_word_ends(t, i))
            IN <<[start |-> i, end |-> e]>> \o finditer_rm(t, e + 1)
       ELSE finditer_rm(t, i + 1)

\* the prefix letter is dropped from the rewritten word
fixed_word_no_prefix(group1, group2) == <<"M">> \o upper(group2)

\* line 39
fixed_word(group1, group2) == group1 \o <<"M">> \o upper(group2)

Correction(stage, original_word, fixed) ==
  [stage |-> stage, original_word |-> original_word, fixed_word |-> fixed]

\* lines 37-41: the matches are rewritten from the last one to the first
RECURSIVE fix_rm_words(_, _, _, _)
fix_rm_words(state, t, matches, k) ==
  IF k = 0 THEN state
  ELSE LET m == matches[k]
           original_word == SubSeq(t, m.start, m.end)
           fixed == fixed_word(<<t[m.start]>>, SubSeq(t, m.start + 3, m.end))
           corrected == state.corrected
       IN fix_rm_words(
            [corrected |-> SubSeq(corrected, 1, m.start - 1) \o fixed
                             \o SubSeq(corrected, m.end + 1, Len(corrected)),
             corrections |-> Append(state.corrections,
                                    Correction("rm_word", original_word, fixed))],
            t, matches, k - 1)

\* lines 43-52, in order
COLLAPSE_STAGES ==
  << <<PATTERN_RM_UPPER, <<"M">> >>,
     <<PATTERN_RM_AFTER, <<"M">> >>,
     <<PATTERN_RM_STANDALONE, <<"M">> >>,
     <<PATTERN_RN_STANDALONE, <<"M">> >>,
     <<PATTERN_RN_BETWEEN, <<"M">> >>,
     <<PATTERN_RN_END, <<"M">> >>,
     <<PATTERN_NN_BETWEEN, <<"M">> >>,
     <<PATTERN_NN_STANDALONE, <<"m">> >> >>

RECURSIVE collapse(_, _)
collapse(t, k) ==
  IF k > Len(COLLAPSE_STAGES) THEN t
  ELSE collapse(sub(COLLAPSE_STAGES[k][1], COLLAPSE_STAGES[k][2], t), k + 1)

\* the positions where a match of maxu upper-case then maxl lower-case
\* letters between word boundaries that starts at position i can end
prefix_suffix_ends(t, i, maxu, maxl) ==
  {e \in i..Len(t) :
     /\ boundary(t, i)
     /\ boundary(t, e + 1)
     /\ \E u \in 1..maxu :
          /\ e - (i + u) + 1 \in 1..maxl
          /\ \A k \in i..(i + u - 1) : t[k] \in UpperCase
          /\ \A k \in (i + u)..e : t[k] \in LowerCase}

\* up to four lower-case letters are accepted
short_words_ends_long(t, i) ==
  prefix_suffix_ends(t, i, ShortPrefixMax, ShortSuffixMax + 1)

\* PATTERN_SHORT_WORDS, \b([A-Z]{1,3})([a-z]{1,3})\b
short_words_ends(t, i) ==
  prefix_suffix_ends(t, i, ShortPrefixMax, ShortSuffixMax)

\* lines 54-58
uppercase_short_words(word) ==
  IF ShortWordMin <= Len(word) /\ Len(word) <= ShortWordMax THEN upper(word)
  ELSE word

\* line 60: PATTERN_SHORT_WORDS.sub(uppercase_short_words, corrected)
RECURSIVE sub_short_words(_, _)
sub_short_words(t, i) ==
  IF i > Len(t) THEN <<>>
  ELSE IF short_words_ends(t, i) # {}
       THEN LET e == Max(short_words_ends(t, i))
            IN uppercase_short_words(SubSeq(t, i, e)) \o sub_short_words(t, e + 1)
       ELSE <<t[i]>> \o sub_short_words(t, i + 1)

\* lines 59-62
fix_short_words(state) ==
  LET corrected == sub_short_words(state.corrected, 1)
  IN [corrected |-> corrected,
      corrections |->
        IF state.corrected # corrected
        THEN Append(state.corrections, Correction("short_words", <<>>, <<>>))
        ELSE state.corrections]

\* lines 64-68
RECURSIVE fix_characters(_, _)
fix_characters(state, k) ==
  IF k > Len(CHAR_REPLACEMENTS) THEN state
  ELSE LET corrected == sub(CHAR_REPLACEMENTS[k][1], CHAR_REPLACEMENTS[k][2],
                            state.corrected)
       IN fix_characters(
            [corrected |-> corrected,
             corrections |->
               IF state.corrected # corrected
               THEN Append(state.corrections,
                           Correction("char_confusion", <<>>, <<>>))
               ELSE state.corrections],
            k + 1)

\* lines 31-75
correct_common_mistakes(t) ==
  LET matches == finditer_rm(t, 1)
      words == fix_rm_words([corrected |-> t, corrections |-> <<>>],
                            t, matches, Len(matches))
      collapsed == [words EXCEPT !.corrected = collapse(words.corrected, 1)]
      final == fix_characters(fix_short_words(collapsed), 1)
  IN [original |-> t,
      corrected |-> final.corrected,
      changed |-> t # final.corrected,
      corrections |-> final.corrections]

\* lines 78-86
smart_correct(t) ==
  LET auto_corrected == correct_common_mistakes(t)
  IN [original |-> t,
      auto_corrected |-> auto_corrected.corrected,
      corrections_applied |-> auto_corrected.corrections,
      best_result |-> auto_corrected.corrected]

(* SpecCorrect: the correction pipeline applied to every text within the   *)
(* bounds and to the scenario texts.                                       *)

\* bound: longest enumerated raw text
MaxTextLen == 4

CorrectionAlphabet == {"A", "a", "r", "m", "n", "v", "0", " "}

Connm == <<"C", "o", "n", "n", "m">>

\* the scenario text and texts for the patterns outside CorrectionAlphabet
ScenarioTexts ==
  {Connm,
   <<"R", "n">>,
   <<"1", "A", "1", "A">>,
   <<"5", "A", "5">>,
   <<"8", "A", "8">>,
   <<"l", "A", "l">>}

CorrectionInputs ==
  UNION {[1..m -> CorrectionAlphabet] : m \in 0..MaxTextLen} \cup ScenarioTexts

CorrectInit ==
  /\ CacheEmpty
  /\ ThreadsIdle
  /\ LoaderIdle
  /\ gt = <<>>
  /\ pred = <<>>
  /\ engine_results = <<>>
  /\ input_text \in CorrectionInputs
  /\ fn = "none"
  /\ out = 0

Call(name, value) ==
  /\ fn = "none"
  /\ fn' = name
  /\ out' = value
  /\ UNCHANGED <<gt, pred, engine_results, input_text, cacheVars, threadVars, loaderVars>>

CorrectCommonMistakes ==
  Call("correct_common_mistakes", correct_common_mistakes(input_text))

SmartCorrect == Call("smart_correct", smart_correct(input_text))

\* multi_ocr.py lines 21-30: recognize_text returns the best_result of
\* smart_correct on the stripped model output, and ocr_trocr corrects the
\* returned text once more
OcrTrocr ==
  LET raw_text == strip(input_text)
      recognized == smart_correct(raw_text).best_result
      corrected == smart_correct(recognized)
  IN Call("ocr_trocr",
          [text_raw |-> recognized,
           text |-> corrected.best_result,
           corrections |-> corrected.corrections_applied])

CorrectNext ==
  \/ CorrectCommonMistakes
  \/ SmartCorrect
  \/ OcrTrocr

SpecCorrect == CorrectInit /\ [][CorrectNext]_vars

----------------------------------------------------------------------------
(* SpecLoad: ModelLoader.load called by the preload thread of web_app.py   *)
(* and by request threads (recognize_text line 106), with model_status     *)
(* asked at any moment.  ModelLoader takes no lock; a step is one read or  *)
(* write of the loader's attributes.                                       *)

Devices == {"cuda", "mps", "cpu"}

\* line 61
is_loaded == model # "None" /\ processor # "None"

LoadInit ==
  /\ CacheEmpty
  /\ ThreadsIdle
  /\ PureIdle
  /\ LoaderFresh
  /\ available \in Devices

LoadStep(t, from, to) ==
  /\ lpc[t] = from
  /\ lpc' = [lpc EXCEPT ![t] = to]
  /\ UNCHANGED <<available, status, cacheVars, threadVars, pureVars>>

\* line 24: if self._model is None or self._processor is None
LoadCheck(t) ==
  /\ LoadStep(t, "idle", IF is_loaded THEN "return" ELSE "get_device")
  /\ UNCHANGED <<model, processor, device, model_loads, processor_loads,
                 failures, loaded_here, lret>>

\* line 26: self._device = get_device()
LoadGetDevice(t) ==
  /\ LoadStep(t, "get_device", "processor")
  /\ device' = available
  /\ UNCHANGED <<model, processor, model_loads, processor_loads,
                 failures, loaded_here, lret>>

\* line 40: self._processor = TrOCRProcessor.from_pretrained(MODEL_NAME)
LoadProcessor(t) ==
  /\ LoadStep(t, "processor", "model")
  /\ processor' = "loaded"
  /\ processor_loads' = processor_loads + 1
  /\ UNCHANGED <<model, device, model_loads, failures, loaded_here, lret>>

\* lines 42-46: from_pretrained returns the model in host memory
LoadModel(t) ==
  /\ LoadStep(t, "model", "to_device")
  /\ model' = "cpu"
  /\ model_loads' = model_loads + 1
  /\ loaded_here' = [loaded_here EXCEPT ![t] = TRUE]
  /\ UNCHANGED <<processor, device, processor_loads, failures, lret>>

\* lines 52-53: from_pretrained raised, load() raises
LoadFail(t) ==
  /\ failures < MaxFailures
  /\ \E from \in {"processor", "model"} : LoadStep(t, from, "raised")
  /\ failures' = failures + 1
  /\ UNCHANGED <<model, processor, device, model_loads, processor_loads,
                 loaded_here, lret>>

\* line 48: self._model = self._model.to(self._device)
LoadToDevice(t) ==
  /\ LoadStep(t, "to_device", "return")
  /\ model' = device
  /\ UNCHANGED <<processor, device, model_loads, processor_loads,
                 failures, loaded_here, lret>>

\* line 55: return self._model, self._processor
LoadReturn(t) ==
  /\ LoadStep(t, "return", "done")
  /\ lret' = [lret EXCEPT ![t] = model]
  /\ UNCHANGED <<model, processor, device, model_loads, processor_loads,
                 failures, loaded_here>>

\* web_app.py lines 127-135: model_status answers is_loaded()
ModelStatus ==
  /\ status' = [ready |-> is_loaded, model_at |-> model]
  /\ UNCHANGED <<model, processor, device, available, model_loads,
                 processor_loads, failures, lpc, loaded_here, lret,
                 cacheVars, threadVars, pureVars>>

LoadNext ==
  \/ \E t \in LoadThreads :
       \/ LoadCheck(t)
       \/ LoadGetDevice(t)
       \/ LoadProcessor(t)
       \/ LoadModel(t)
       \/ LoadFail(t)
       \/ LoadToDevice(t)
       \/ LoadReturn(t)
  \/ ModelStatus

SpecLoad == LoadInit /\ [][LoadNext]_vars

----------------------------------------------------------------------------
(* Claims about the one-at-a-time cache (Spec) *)

\* C1: after any sequence of recognize_text calls run one at a time, with
\* repeated and distinct fingerprints, _text_cache holds at most 100 entries.
C1_CacheBounded == Len(text_cache) <= CacheCapacity

\* C1 witness: more than 100 stores have happened and the cache is full
C1_Witness == stores > CacheCapacity /\ Len(text_cache) = CacheCapacity

\* the key inserted earliest among those present in cache c
EarliestInserted(c) ==
  CHOOSE k \in Keys(c) : \A q \in Keys(c) : insertedAt[k] <= insertedAt[q]

\* a step that performs a store
StoreStep == stores' # stores

\* C2: eviction is FIFO by insertion order: every store that grows the cache
\* beyond 100 entries removes exactly one entry, the one inserted earliest
\* among those present; after storing 101 distinct keys into the empty cache
\* exactly 100 entries remain, the first-inserted key is absent and the
\* 101st is present.
C2_FifoEviction ==
  /\ [][(StoreStep /\ Len(text_cache) = CacheCapacity) =>
          /\ Keys(text_cache) \ Keys(text_cache') = {EarliestInserted(text_cache)}
          /\ Keys(text_cache') \ Keys(text_cache) = {last'.key}
          /\ Len(text_cache') = CacheCapacity]_vars
  /\ []((stores = CacheCapacity + 1 /\ seen = CacheCapacity + 1) =>
          /\ Len(text_cache) = CacheCapacity
          /\ \A k \in Fingerprints :
               /\ insertedAt[k] = 1 => ~Contains(text_cache, k)
               /\ insertedAt[k] = CacheCapacity + 1 => Contains(text_cache, k))

\* C2 witness: the 101st distinct key has just been stored
C2_Witness ==
  /\ stores = CacheCapacity + 1
  /\ seen = CacheCapacity + 1
  /\ last.kind = "stored"
  /\ insertedAt[last.key] = CacheCapacity + 1

\* C3: a cache hit returns the stored text and leaves the keys, values and
\* insertion order of the cache unchanged; reading the oldest-inserted key
\* does not stop it from being the next entry evicted.
C3_HitIsPure ==
  /\ [][last'.kind = "hit" =>
          /\ text_cache' = text_cache
          /\ Contains(text_cache, last'.key)
          /\ last'.ret = Lookup(text_cache, last'.key)]_vars
  /\ [][(/\ last.kind = "hit"
          /\ last.key = EarliestInserted(text_cache)
          /\ StoreStep
          /\ Len(text_cache) = CacheCapacity) =>
          ~Contains(text_cache', last.key)]_vars

\* C3 witness: the oldest key of a full cache has just been read
C3_Witness ==
  /\ last.kind = "hit"
  /\ Len(text_cache) = CacheCapacity
  /\ last.key = EarliestInserted(text_cache)
  /\ last.ret = RecognizedText(last.key)

\* C4: entries are added only by a successful recognition of a fingerprint
\* that is not cached; a call that raises leaves the cache as it was; an
\* entry leaves the cache only by capacity eviction.
C4_OnlySuccessStores ==
  [][/\ (Keys(text_cache') \ Keys(text_cache) # {} =>
          /\ last'.kind = "stored"
          /\ ~Contains(text_cache, last'.key)
          /\ Keys(text_cache') \ Keys(text_cache) = {last'.key})
     /\ (last'.kind = "raised" => text_cache' = text_cache)
     /\ (Keys(text_cache) \ Keys(text_cache') # {} =>
          /\ last'.kind = "stored"
          /\ Len(text_cache) = CacheCapacity)]_vars

\* C4 witness: inference has just failed for an uncached fingerprint while
\* the cache holds entries
C4_Witness ==
  /\ last.kind = "raised"
  /\ last.stage = "inference"
  /\ text_cache # <<>>
  /\ ~Contains(text_cache, last.key)

----------------------------------------------------------------------------
(* Claims about concurrent requests (SpecConc) *)

AllReturned == \A t \in Threads : pc[t] \in {"returned", "raised"}

\* one recognize_text call run to completion on cache c
SeqCall(c, k) ==
  IF Contains(c, k) THEN c ELSE EvictIfOver(DictSet(c, k, RecognizedText(k)))

RECURSIVE SeqRun(_, _, _)
SeqRun(c, order, i) ==
  IF i > Len(order) THEN c
  ELSE SeqRun(SeqCall(c, image_hash[order[i]]), order, i + 1)

\* the caches the same calls produce when run one at a time, in any order
SequentialOutcomes ==
  {SeqRun(cache0, order, 1) :
     order \in {o \in [Threads -> Threads] : \A a, b \in Threads : a # b => o[a] # o[b]}}

\* C5: for every interleaving of concurrent recognize_text calls, once all
\* calls have returned the cache holds at most 100 entries and equals what
\* some one-at-a-time ordering of the same calls produces (no lost update).
C5_Linearizable ==
  AllReturned =>
    /\ Len(text_cache) <= CacheCapacity
    /\ text_cache \in SequentialOutcomes

\* C6: the cache never fails: in every interleaving the lookup step and the
\* store-then-evict step raise no error, so no call whose inference
\* succeeded is reported as failed.
C6_CacheNeverRaises == \A t \in Threads : pc[t] # "raised"

----------------------------------------------------------------------------
(* Claims about the metric functions (SpecMetrics) *)

\* cell (i, j) of the reference (|a|+1) x (|b|+1) edit-distance table
RECURSIVE RefCell(_, _, _, _)
RefCell(a, b, i, j) ==
  IF i = 0 THEN j
  ELSE IF j = 0 THEN i
  ELSE Min3(RefCell(a, b, i - 1, j) + 1,
            RefCell(a, b, i, j - 1) + 1,
            RefCell(a, b, i - 1, j - 1) + (IF a[i] # b[j] THEN 1 ELSE 0))

\* C7: calculate_levenshtein_distance(a, b) is the bottom-right cell of the
\* reference table for all a and b (either empty, a shorter than b); so
\* distance(empty, b) = |b|, distance(a, empty) = |a| and
\* distance(a, b) = distance(b, a).
C7_LevenshteinIsEditDistance ==
  fn = "calculate_levenshtein_distance" =>
    /\ out = RefCell(gt, pred, Len(gt), Len(pred))
    /\ (gt = <<>> => out = Len(pred))
    /\ (pred = <<>> => out = Len(gt))
    /\ out = calculate_levenshtein_distance(pred, gt)

\* C7 witness: a non-empty first argument shorter than the second (the
\* swap), with a distance that needs both a match and an insertion
C7_Witness ==
  /\ fn = "calculate_levenshtein_distance"
  /\ gt # <<>>
  /\ Len(gt) < Len(pred)
  /\ out = Len(pred) - Len(gt)

NoWords(text) == \A i \in DOMAIN text : text[i] \in Whitespace

IsZero(r) == r.den > 0 /\ r.num = 0

IsOne(r) == r.den > 0 /\ r.num = r.den

\* C8: calculate_cer and calculate_wer return a value in [0, 1] and never
\* divide by zero, for every pair of texts; with an empty reference (for
\* WER: no reference words) the result is 0 when the candidate is likewise
\* empty and 1 otherwise.
C8_ErrorRatesInUnitInterval ==
  fn \in {"calculate_cer", "calculate_wer"} =>
    /\ out.den > 0
    /\ 0 <= out.num
    /\ out.num <= out.den
    /\ (fn = "calculate_cer" /\ gt = <<>> =>
          IF pred = <<>> THEN IsZero(out) ELSE IsOne(out))
    /\ (fn = "calculate_wer" /\ NoWords(gt) =>
          IF NoWords(pred) THEN IsZero(out) ELSE IsOne(out))

\* C8 witness: the error rate of a candidate much longer than a
\* whitespace-only reference is clamped to 1
C8_Witness ==
  /\ fn = "calculate_cer"
  /\ gt = <<" ">>
  /\ Len(pred) = MaxCandLen
  /\ IsOne(out)

\* the texts differ in the case of at least one letter and in nothing else
CaseOnlyDiff(a, b) ==
  /\ Len(a) = Len(b)
  /\ a # b
  /\ \A i \in DOMAIN a : Lower(a[i]) = Lower(b[i])

\* the texts have the same words and differ in the whitespace around them
SpacingOnlyDiff(a, b) ==
  /\ a # b
  /\ split(a) = split(b)

C10_CaseInsensitiveCharAccuracy ==
  (fn = "get_detailed_metrics" /\ CaseOnlyDiff(gt, pred)) =>
    out.character_accuracy = 10000

\* C11: calculate_accuracy(s, s) is 100 for every text s, calculate_accuracy
\* of an empty reference and a non-empty candidate is 0, and for a non-empty
\* reference the result is max(0, (1 - CER) * 100), so it lies in [0, 100].
C11_AccuracyFromCer ==
  fn = "calculate_accuracy" =>
    /\ out.den > 0
    /\ (gt = pred => out.num = 100 * out.den)
    /\ (gt = <<>> /\ pred # <<>> => out.num = 0)
    /\ (gt # <<>> =>
          LET d == RefCell(gt, pred, Len(gt), Len(pred))
              expected == IF d >= Len(gt) THEN Rat(0, 1)
                          ELSE Rat(100 * (Len(gt) - d), Len(gt))
          IN out.num * expected.den = expected.num * out.den)
    /\ 0 <= out.num
    /\ out.num <= 100 * out.den

\* C11 witness: a non-empty reference and a candidate at distance 1
C11_Witness ==
  /\ fn = "calculate_accuracy"
  /\ Len(gt) = MaxRefLen
  /\ calculate_levenshtein_distance(gt, pred) = 1
  /\ out.num * MaxRefLen = 100 * (MaxRefLen - 1) * out.den

\* the words of a text after case folding
NormalizedWords(text) == split([i \in DOMAIN text |-> Lower(text[i])])

\* C12: calculate_word_accuracy is positional and counts unmatched trailing
\* words of either side as wrong: for a reference with at least one word it
\* returns 100 if and only if the normalized word sequence of the candidate
\* is identical to that of the reference.
C12_WordAccuracyExact ==
  (fn = "calculate_word_accuracy" /\ ~NoWords(gt)) =>
    ((out.num = 100 * out.den) <=> (NormalizedWords(pred) = NormalizedWords(gt)))

----------------------------------------------------------------------------
(* Claims about compare_engines (SpecRank) *)

\* C13: compare_engines returns the stable descending sort of its input:
\* every input result appears exactly once, the character_accuracy values
\* (0 without a metrics record) are non-increasing, and results with equal
\* character_accuracy keep their input order.
C13_StableDescendingSort ==
  fn = "compare_engines" =>
    /\ Len(out) = Len(engine_results)
    /\ \A i \in DOMAIN engine_results :
         Cardinality({j \in DOMAIN out : out[j].engine = i}) = 1
    /\ \A i, j \in DOMAIN out :
         i < j =>
           /\ sort_key(out[i]) >= sort_key(out[j])
           /\ (sort_key(out[i]) = sort_key(out[j]) => out[i].engine < out[j].engine)

\* C13 witness: three results, two of them with equal accuracy below the third
C13_Witness ==
  /\ fn = "compare_engines"
  /\ Len(out) = 3
  /\ out[1].engine = 3
  /\ sort_key(out[1]) > sort_key(out[2])
  /\ sort_key(out[2]) = sort_key(out[3])

\* C14: in the output of compare_engines every failed result comes after
\* every successful result, whatever the input order and whatever the texts
\* of the successful results.
C14_FailuresLast ==
  fn = "compare_engines" =>
    \A i, j \in DOMAIN out :
      (out[i].success = "False" /\ out[j].success = "True") => j < i

\* C15: compare_engines attaches to every result with success=true and a
\* non-empty text a metrics record equal to get_detailed_metrics(reference,
\* text), returns every failed result without metrics and otherwise
\* unchanged, and does not modify the caller's list or any record in it.
C15_AttachOnly ==
  [][fn' = "compare_engines" /\ fn = "none" =>
       /\ engine_results' = engine_results
       /\ \A j \in DOMAIN out' :
            LET res == out'[j] IN
              /\ res.engine \in DOMAIN engine_results
              /\ (res.success = "True" /\ res.text # <<>> =>
                    /\ res.accuracy_metrics = <<get_detailed_metrics(gt, res.text)>>
                    /\ [res EXCEPT !.accuracy_metrics = <<>>] = engine_results[res.engine])
              /\ (res.success = "False" => res = engine_results[res.engine])]_vars

\* C15 witness: a ranked list that holds a failed result and a successful
\* result with a non-empty text
C15_Witness ==
  /\ fn = "compare_engines"
  /\ \E i, j \in DOMAIN out :
       /\ out[i].success = "False"
       /\ out[i].accuracy_metrics = <<>>
       /\ out[j].success = "True"
       /\ out[j].text # <<>>
       /\ out[j].accuracy_metrics # <<>>

----------------------------------------------------------------------------
(* Claims about the correction pipeline (SpecCorrect) *)

\* the entries one per altering collapse stage would add
RECURSIVE collapse_trail(_, _)
collapse_trail(t, k) ==
  IF k > Len(COLLAPSE_STAGES) THEN <<>>
  ELSE LET after == sub(COLLAPSE_STAGES[k][1], COLLAPSE_STAGES[k][2], t)
       IN (IF after # t THEN <<"collapse">> ELSE <<>>) \o collapse_trail(after, k + 1)

\* one entry per rule stage that altered the text, in rule order
StagesThatAltered(t) ==
  LET matches == finditer_rm(t, 1)
      words == fix_rm_words([corrected |-> t, corrections |-> <<>>],
                            t, matches, Len(matches)).corrected
      collapsed == collapse(words, 1)
      rest == fix_characters(
                fix_short_words([corrected |-> collapsed, corrections |-> <<>>]), 1)
  IN (IF words # t THEN <<"rm_word">> ELSE <<>>)
       \o collapse_trail(words, 1)
       \o [i \in DOMAIN rest.corrections |-> rest.corrections[i].stage]

\* C16: the audit trail of correct_common_mistakes has exactly one entry per
\* rule stage that altered the text, in rule order (one entry for a stage
\* that rewrote several matches, an entry for every rm, rn and nn collapse
\* stage that altered the text, none for a stage that left it unchanged).
C16_OneEntryPerAlteringStage ==
  fn = "correct_common_mistakes" =>
    [i \in DOMAIN out.corrections |-> out.corrections[i].stage]
      = StagesThatAltered(input_text)

\* C17 as stated: on "Connm" the pipeline reports changed=true and the
\* corrected text carries an uppercase M instead of being the input.
C17_ConnmRepaired ==
  (fn = "correct_common_mistakes" /\ input_text = Connm) =>
    /\ out.changed
    /\ out.corrected # Connm
    /\ \E i \in DOMAIN out.corrected : out.corrected[i] = "M"

\* C17 amended: "Connm" holds no "rm" and matches no pattern, so
\* correct_common_mistakes returns it unchanged, with changed=false and an
\* empty list of corrections.
C17_ConnmUnchanged ==
  (fn = "correct_common_mistakes" /\ input_text = Connm) =>
    /\ out.corrected = Connm
    /\ ~out.changed
    /\ out.corrections = <<>>

\* C17 witness: correct_common_mistakes has returned for "Connm"
C17_Witness ==
  /\ fn = "correct_common_mistakes"
  /\ input_text = Connm
  /\ out.original = Connm

\* the maximal runs of word characters of a text, in order
RECURSIVE word_runs(_, _, _)
word_runs(t, i, run) ==
  LET closed == IF run = <<>> THEN <<>> ELSE <<run>> IN
    IF i > Len(t) THEN closed
    ELSE IF t[i] \in WordChars THEN word_runs(t, i + 1, Append(run, t[i]))
         ELSE closed \o word_runs(t, i + 1, <<>>)

\* a word made of one letter of the given set, "rm", and one or more letters
is_rm_word(w, prefixes) ==
  /\ Len(w) >= 4
  /\ w[1] \in prefixes
  /\ w[2] = "r"
  /\ w[3] = "m"
  /\ \A k \in 4..Len(w) : w[k] \in UpperCase \cup LowerCase

RmWordsRewritten(prefixes) ==
  fn = "correct_common_mistakes" =>
    LET before == word_runs(input_text, 1, <<>>)
        after == word_runs(out.corrected, 1, <<>>)
    IN \A k \in DOMAIN before :
         is_rm_word(before[k], prefixes) =>
           /\ k \in DOMAIN after
           /\ after[k] = <<before[k][1], "M">>
                            \o upper(SubSeq(before[k], 4, Len(before[k])))

\* C18 as stated: every word made of one letter L (upper- or lower-case),
\* "rm" and one or more letters S comes out as L + "M" + uppercase(S).
C18_AnyLetterPrefix == RmWordsRewritten(UpperCase \cup LowerCase)

\* C18 amended: every word, delimited by word boundaries, made of one
\* upper-case letter L, "rm" and one or more letters S comes out of
\* correct_common_mistakes as L + "M" + uppercase(S); a word with a
\* lower-case first letter is not rewritten by rule family 1.
C18_UpperCasePrefix == RmWordsRewritten(UpperCase)

\* C18 witness: "Arma" has come out as "AMA"
C18_Witness ==
  /\ fn = "correct_common_mistakes"
  /\ input_text = <<"A", "r", "m", "a">>
  /\ out.corrected = <<"A", "M", "A">>

\* C19: the result of correct_common_mistakes has changed=true if and only
\* if its list of correction descriptions is non-empty.
C19_ChangedIffAudited ==
  fn = "correct_common_mistakes" => (out.changed <=> out.corrections # <<>>)

\* C20: the pipeline is idempotent, so the text ocr_trocr reports after
\* correcting once more equals the text recognize_text returned and cached.
C20_Idempotent ==
  fn = "ocr_trocr" => out.text = out.text_raw

----------------------------------------------------------------------------
(* Claims about ModelLoader (SpecLoad) *)

\* one load of the model and of the processor per process
LoadedOnce == model_loads <= 1 /\ processor_loads <= 1

\* is_loaded() answered true only for a model on the selected device
ReadyMeansOnDevice == status.ready => status.model_at = device

\* a load() that did not load returned a model on the selected device
ReturnedOnDevice ==
  \A t \in LoadThreads :
    (lpc[t] = "done" /\ ~loaded_here[t]) => lret[t] = device

\* C21: under every interleaving of the preload thread and the request
\* threads the model and the processor are loaded at most once, and whenever
\* is_loaded() has answered true, or load() has returned without loading,
\* the model is on the selected device.
C21_LoadedOnceOnDevice ==
  /\ LoadedOnce
  /\ ReadyMeansOnDevice
  /\ ReturnedOnDevice

====
